---------------------------- MODULE Spec2Model ----------------------------
(***************************************************************************)
(* Blockwise-parallel attention (presentation.ipynb).                      *)
(*                                                                         *)
(* Two parts are modelled:                                                 *)
(*   - the online softmax accumulation (the loop body shared by the        *)
(*     blockwise loops and start_host), over exact fixed-point numbers;    *)
(*   - the ring of processes built by ring_transformer: one scheduler, n   *)
(*     hosts running start_host, n ring queues and the primary queue.      *)
(*                                                                         *)
(* Arithmetic.  np.exp is modelled in base 2 over integer scores, so that  *)
(* every weight exp(score - max) is a dyadic rational; a weight is kept    *)
(* as the integer m standing for m / 2^FracBits.  The laws the algorithm   *)
(* relies on (exp(0) = 1, exp(a + b) = exp(a) * exp(b), exp(-inf) = 0,     *)
(* monotonicity) are those of np.exp.  IEEE special values are kept:       *)
(* a number is <<kind, value>> with kind "fin", "-inf", "inf" or "nan".    *)
(* The batch dimension b and the feature dimension d are 1.                *)
(***************************************************************************)
EXTENDS Integers, Sequences, FiniteSets, TLC

\* ------------------------------------------------------------------ bounds
MaxHosts == 3      \* ring: n, the number of chunks and hosts, ranges over 1..MaxHosts
MaxFailHosts == 2  \* ring with failing hosts: n ranges over 1..MaxFailHosts
SeqLen == 2        \* ring: s, the sequence length of a chunk
MaxSeed == 1       \* ring: seeds of the input generator range over 0..MaxSeed
MaxScalar == 1     \* entries of Q, K and V range over 0..MaxScalar
MaxKeys == 4       \* blockwise loop: n * s, the number of keys, ranges over 0..MaxKeys
MaxMaskedKeys == 3 \* blockwise loop over masked keys: n * s ranges over 1..MaxMaskedKeys

\* Fractional bits of a weight: scores lie in 0..MaxScalar^2, so every
\* exponent score - max lies in -FracBits..0 and 2^(score - max) is exact.
FracBits == MaxScalar * MaxScalar
Levels == MaxScalar + 1

\* ------------------------------------------------------------- variables
VARIABLES
  n,          \* number of chunks = number of hosts (global n, len(Q))
  s,          \* sequence length of one chunk (global s)
  Q, K, V,    \* the input arrays: Q[i], K[i], V[i] are sequences of length s
              \* (in the blockwise loop Q holds the one query chunk modelled)
  queues,     \* ring_transformer: queues[i], a FIFO of (k, v) messages
  primary,    \* ring_transformer: the result queue, a FIFO of <<index, x>>
  spc,        \* scheduler position in ring_transformer
  sidx,       \* scheduler loop counter
  collected,  \* the list being built by [primary.get() for _ in range(num_hosts)]
  outputs,    \* the value ring_transformer returned
  wpc,        \* wpc[i]: position of host i in start_host
  cnt,        \* cnt[i]: completed iterations of "for _ in range(n)"
  kv,         \* kv[i]: the locals k, v of host i (a message)
  max_i, num, den,  \* the accumulators of host i, one entry per query row
  seen,       \* history: chunk indices host i has fed into its accumulator
  afed,       \* blockwise loop: the chunk numbers j already ingested
  afirst,     \* history: the chunk ingested first (-1: none yet)
  amax, anum, aden, \* blockwise loop: max_i, num, den
  apc,        \* blockwise loop: "loop", "done" ("off" while the ring runs)
  aout        \* blockwise loop: num / den[..., None]

ringVars == <<n, s, Q, K, V, queues, primary, spc, sidx, collected, outputs,
              wpc, cnt, kv, max_i, num, den, seen>>
accVars == <<afed, afirst, amax, anum, aden, apc, aout>>
vars == <<ringVars, accVars>>

\* ---------------------------------------------------------------- floats
Fin(x) == <<"fin", x>>
NegInf == <<"-inf", 0>>
PosInf == <<"inf", 0>>
NaN == <<"nan", 0>>

\* np.maximum
Maximum(a, b) ==
  IF a[1] = "nan" \/ b[1] = "nan" THEN NaN
  ELSE IF a[1] = "inf" \/ b[1] = "inf" THEN PosInf
  ELSE IF a[1] = "-inf" THEN b
  ELSE IF b[1] = "-inf" THEN a
  ELSE IF a[2] >= b[2] THEN a ELSE b

\* a - b on scores
Minus(a, b) ==
  IF a[1] = "nan" \/ b[1] = "nan" THEN NaN
  ELSE IF a[1] = "fin" /\ b[1] = "fin" THEN Fin(a[2] - b[2])
  ELSE IF a[1] = b[1] THEN NaN                      \* inf - inf, -inf - -inf
  ELSE IF a[1] = "inf" \/ b[1] = "-inf" THEN PosInf
  ELSE NegInf

\* np.exp of a score difference, as a weight with FracBits fractional bits;
\* an exponent below -FracBits underflows to 0
Exp(x) ==
  IF x[1] = "nan" THEN NaN
  ELSE IF x[1] = "inf" THEN PosInf
  ELSE IF x[1] = "-inf" THEN Fin(0)
  ELSE IF x[2] + FracBits < 0 THEN Fin(0)
  ELSE Fin(2 ^ (x[2] + FracBits))

\* a + b on weights
Plus(a, b) ==
  IF a[1] = "nan" \/ b[1] = "nan" THEN NaN
  ELSE IF a[1] = "fin" /\ b[1] = "fin" THEN Fin(a[2] + b[2])
  ELSE IF a[1] = "fin" THEN b
  ELSE IF b[1] = "fin" THEN a
  ELSE IF a[1] = b[1] THEN a
  ELSE NaN

\* weight * integer value (one term of the einsum 'bqk,bkd -> bqd')
Scale(w, v) ==
  IF w[1] = "nan" THEN NaN
  ELSE IF w[1] = "fin" THEN Fin(w[2] * v)
  ELSE IF v = 0 THEN NaN
  ELSE w

\* a * b on weights
Times(a, b) ==
  IF a[1] = "nan" \/ b[1] = "nan" THEN NaN
  ELSE IF a[1] = "fin" /\ b[1] = "fin" THEN Fin((a[2] * b[2]) \div (2 ^ FracBits))
  ELSE IF (a[1] = "fin" /\ a[2] = 0) \/ (b[1] = "fin" /\ b[2] = 0) THEN NaN
  ELSE PosInf

RECURSIVE Gcd(_, _)
Gcd(a, b) == IF b = 0 THEN a ELSE Gcd(b, a % b)

\* a / b of numpy: a quotient <<kind, p, q>> in lowest terms; x / 0 is inf
\* and 0 / 0 is nan (a RuntimeWarning, no exception)
TrueDivide(a, b) ==
  IF a[1] = "nan" \/ b[1] = "nan" THEN <<"nan", 0, 1>>
  ELSE IF a[1] = "fin" /\ b[1] = "fin" THEN
    IF b[2] = 0 THEN (IF a[2] = 0 THEN <<"nan", 0, 1>> ELSE <<"inf", 0, 1>>)
    ELSE LET g == Gcd(a[2], b[2]) IN <<"fin", a[2] \div g, b[2] \div g>>
  ELSE IF a[1] = "fin" THEN <<"fin", 0, 1>>
  ELSE IF b[1] = "fin" THEN <<"inf", 0, 1>>
  ELSE <<"nan", 0, 1>>

\* --------------------------------------------------------- sequence sums
RECURSIVE SumSeq(_)
SumSeq(ws) == IF ws = <<>> THEN Fin(0) ELSE Plus(Head(ws), SumSeq(Tail(ws)))

RECURSIVE MaxSeq(_)
MaxSeq(xs) == IF Len(xs) = 1 THEN xs[1] ELSE Maximum(xs[1], MaxSeq(Tail(xs)))

\* ------------------------------------------------------------- the inputs
\* np.random.random: a generator state advanced once per entry drawn
Lcg(x) == (5 * x + 3) % 16

RECURSIVE RandomState(_, _)
RandomState(seed, t) == IF t = 0 THEN seed ELSE Lcg(RandomState(seed, t - 1))

\* the t-th entry drawn (t = 0, 1, ...), an integer in 0..MaxScalar
Random(seed, t) == (RandomState(seed, t + 1) \div 4) % Levels

\* an array of shape (cn, cs) whose first entry is draw number off
RandomArray(seed, off, cn, cs) ==
  [i \in 0..(cn - 1) |-> [r \in 1..cs |-> Random(seed, off + i * cs + r - 1)]]

\* ------------------------------------------------ the accumulation step
\* num, den, max_i before the first chunk, for a query chunk of rows rows
ZeroAcc(rows) ==
  [max_i |-> [r \in 1..rows |-> NegInf],
   num   |-> [r \in 1..rows |-> Fin(0)],
   den   |-> [r \in 1..rows |-> Fin(0)]]

\* alpha = einsum('bqd,bkd -> bqk', q, k)
Alpha(q, k) == [r \in 1..Len(q) |-> [c \in 1..Len(k) |-> Fin(q[r] * k[c])]]

\* variant: only the first score of a block enters the running maximum
NewMaxFirstScore(alpha, prev) ==
  [r \in DOMAIN prev |-> Maximum(alpha[r][1], prev[r])]

\* variant: the running maximum is replaced by the maximum of the block
NewMaxOfBlock(alpha, prev) == [r \in DOMAIN prev |-> MaxSeq(alpha[r])]

\* max_i = np.maximum(alpha.max(-1), max_i)
NewMax(alpha, prev) ==
  [r \in DOMAIN prev |-> Maximum(MaxSeq(alpha[r]), prev[r])]

\* variant: the exponentials are taken of the raw scores
WeightsUnshifted(alpha, m) ==
  [r \in DOMAIN alpha |-> [c \in DOMAIN alpha[r] |-> Exp(alpha[r][c])]]

\* np.exp(alpha - max_i[..., None])
Weights(alpha, m) ==
  [r \in DOMAIN alpha |-> [c \in DOMAIN alpha[r] |-> Exp(Minus(alpha[r][c], m[r]))]]

\* variant: the old sums are carried over without rescaling
CorrectionAbsent(prev, m) == [r \in DOMAIN prev |-> Fin(2 ^ FracBits)]

\* np.exp(prev - max_i)
Correction(prev, m) == [r \in DOMAIN prev |-> Exp(Minus(prev[r], m[r]))]

\* variant: only the first key of a chunk contributes to the numerator
WeightedSumFirstKey(wr, v) == Scale(wr[1], v[1])

\* einsum('bqk,bkd -> bqd', w, v) for one query row
WeightedSum(wr, v) == SumSeq([c \in DOMAIN wr |-> Scale(wr[c], v[c])])

\* variant: the denominator is not rescaled
UpdateDenUncorrected(acc, w, v, corr, m) ==
  [max_i |-> m,
   num   |-> [r \in DOMAIN m |-> Plus(Times(acc.num[r], corr[r]), WeightedSum(w[r], v))],
   den   |-> [r \in DOMAIN m |-> Plus(acc.den[r], SumSeq(w[r]))]]

\* num = num * corr[..., None] + exp_values;  den = den * corr + w.sum(-1)
Update(acc, w, v, corr, m) ==
  [max_i |-> m,
   num   |-> [r \in DOMAIN m |-> Plus(Times(acc.num[r], corr[r]), WeightedSum(w[r], v))],
   den   |-> [r \in DOMAIN m |-> Plus(Times(acc.den[r], corr[r]), SumSeq(w[r]))]]

Rescale(acc, alpha, v, m) ==
  Update(acc, Weights(alpha, m), v, Correction(acc.max_i, m), m)

Accumulate(acc, alpha, v) == Rescale(acc, alpha, v, NewMax(alpha, acc.max_i))

\* one pass of the loop body: the accumulators after ingesting chunk (k, v)
Observe(acc, q, k, v) == Accumulate(acc, Alpha(q, k), v)

\* num / den[..., None]
Finalize(acc) == [r \in DOMAIN acc.num |-> TrueDivide(acc.num[r], acc.den[r])]

\* postprocess: the feed-forward block, an opaque pure function of its input
postprocess(x) == <<"postprocess", x>>

\* ------------------------------------------------------------- the ring
Hosts == 0..(n - 1)

\* input_queue = queues[i - 1] (index -1 is the last queue); output_queue = queues[i]
InputQueue(i) == (i + n - 1) % n
OutputQueue(i) == i

\* the message (k, v) for chunk j; idx is a history tag, not part of the data
Message(j) == [idx |-> j, k |-> K[j], v |-> V[j]]

RingIdle ==
  /\ queues = [i \in Hosts |-> <<>>]
  /\ primary = <<>>
  /\ spc = "start"
  /\ sidx = 0
  /\ collected = <<>>
  /\ outputs = <<>>
  /\ wpc = [i \in Hosts |-> "created"]
  /\ cnt = [i \in Hosts |-> 0]
  /\ kv = [i \in Hosts |-> Message(i)]
  /\ max_i = [i \in Hosts |-> <<>>]
  /\ num = [i \in Hosts |-> <<>>]
  /\ den = [i \in Hosts |-> <<>>]
  /\ seen = [i \in Hosts |-> <<>>]

AccOff ==
  /\ afed = {}
  /\ afirst = -1
  /\ amax = <<>> /\ anum = <<>> /\ aden = <<>>
  /\ apc = "off"
  /\ aout = <<>>

\* the state when ring_transformer has created its queues and processes
Init ==
  /\ n \in 1..MaxHosts
  /\ s = SeqLen
  /\ \E seed \in 0..MaxSeed :
       /\ Q = RandomArray(seed, 0, n, s)
       /\ K = RandomArray(seed, n * s, n, s)
       /\ V = RandomArray(seed, 2 * n * s, n, s)
  /\ RingIdle
  /\ AccOff

HostAcc(i) == [max_i |-> max_i[i], num |-> num[i], den |-> den[i]]

\* variant: max_i, num and den are shared by all hosts
SetAccShared(i, acc) ==
  /\ max_i' = [j \in Hosts |-> acc.max_i]
  /\ num' = [j \in Hosts |-> acc.num]
  /\ den' = [j \in Hosts |-> acc.den]

\* the assignments to max_i, num and den of host i
SetAcc(i, acc) ==
  /\ max_i' = [max_i EXCEPT ![i] = acc.max_i]
  /\ num' = [num EXCEPT ![i] = acc.num]
  /\ den' = [den EXCEPT ![i] = acc.den]

\* the next scheduler loop position: the loop goes on, or the next loop begins
Advance(next) ==
  IF sidx + 1 < n
    THEN /\ sidx' = sidx + 1
         /\ spc' = spc
    ELSE /\ sidx' = 0
         /\ spc' = next

\* ring_transformer: process.start(); the host runs up to its first get
StartProcess ==
  /\ spc = "start"
  /\ wpc' = [wpc EXCEPT ![sidx] = "get"]
  /\ SetAcc(sidx, ZeroAcc(s))
  /\ Advance("put")
  /\ UNCHANGED <<n, s, Q, K, V, queues, primary, collected, outputs, cnt, kv, seen>>
  /\ UNCHANGED accVars

\* ring_transformer: queue.put((k, v)) of the initial messages
SendInitial ==
  /\ spc = "put"
  /\ queues' = [queues EXCEPT ![sidx] = Append(@, Message(sidx))]
  /\ Advance("join")
  /\ UNCHANGED <<n, s, Q, K, V, primary, collected, outputs, wpc, cnt, kv,
                 max_i, num, den, seen>>
  /\ UNCHANGED accVars

\* ring_transformer: process.join() returns once the process has exited
Join ==
  /\ spc = "join"
  /\ wpc[sidx] \in {"done", "failed"}
  /\ Advance("collect")
  /\ UNCHANGED <<n, s, Q, K, V, queues, primary, collected, outputs, wpc, cnt, kv,
                 max_i, num, den, seen>>
  /\ UNCHANGED accVars

\* sorted(...) of a list of <<index, x>> pairs (insertion sort on the index)
RECURSIVE Insert(_, _)
Insert(e, sorted) ==
  IF sorted = <<>> THEN <<e>>
  ELSE IF e[1] <= Head(sorted)[1] THEN <<e>> \o sorted
  ELSE <<Head(sorted)>> \o Insert(e, Tail(sorted))

\* variant: the list is left in arrival order
Unsorted(list) == list

RECURSIVE Sorted(_)
Sorted(list) == IF list = <<>> THEN <<>> ELSE Insert(Head(list), Sorted(Tail(list)))

\* np.stack([x for _, x in outputs])
Stack(list) == [j \in 1..Len(list) |-> list[j][2]]

\* variant: the collection gives up on a failed host and returns what it has
CollectPartial ==
  /\ spc = "collect"
  /\ primary # <<>>
  /\ primary' = Tail(primary)
  /\ collected' = Append(collected, Head(primary))
  /\ IF Len(collected') = n \/ \E i \in Hosts : wpc[i] = "failed"
       THEN /\ outputs' = Stack(Sorted(collected'))
            /\ spc' = "returned"
       ELSE /\ outputs' = outputs
            /\ spc' = spc
  /\ UNCHANGED <<n, s, Q, K, V, queues, sidx, wpc, cnt, kv, max_i, num, den, seen>>
  /\ UNCHANGED accVars

\* ring_transformer: one primary.get() of the list comprehension; after the
\* last one the list is sorted, stacked and returned
Collect ==
  /\ spc = "collect"
  /\ primary # <<>>
  /\ primary' = Tail(primary)
  /\ collected' = Append(collected, Head(primary))
  /\ IF Len(collected') = n
       THEN /\ outputs' = Stack(Sorted(collected'))
            /\ spc' = "returned"
       ELSE /\ outputs' = outputs
            /\ spc' = spc
  /\ UNCHANGED <<n, s, Q, K, V, queues, sidx, wpc, cnt, kv, max_i, num, den, seen>>
  /\ UNCHANGED accVars

\* the asserts on k.shape and v.shape
ShapeOk(msg) == Len(msg.k) = s /\ Len(msg.v) = s

\* np.maximum(alpha.max(-1), max_i): the query chunk's rows, shape (b, len(q)),
\* against max_i, shape (b, s); the shapes must agree (lengths of 1, which
\* numpy would broadcast, do not occur: every chunk holds two rows or more)
BroadcastOk(i) == Len(Q[i]) = s

\* start_host: input_queue.get() returns only when the queue holds a message
CanReceive(i) == wpc[i] = "get" /\ queues[InputQueue(i)] # <<>>

\* variant: the received pair feeds the accumulator, but the locals k, v
\* keep the chunk passed to start_host
ReceiveKeepsOwn(i) ==
  /\ CanReceive(i)
  /\ LET msg == Head(queues[InputQueue(i)])
     IN /\ queues' = [queues EXCEPT ![InputQueue(i)] = Tail(@)]
        /\ SetAcc(i, Observe(HostAcc(i), Q[i], msg.k, msg.v))
        /\ seen' = [seen EXCEPT ![i] = Append(@, msg.idx)]
        /\ wpc' = [wpc EXCEPT ![i] = "put"]
  /\ UNCHANGED <<n, s, Q, K, V, primary, spc, sidx, collected, outputs, cnt, kv>>
  /\ UNCHANGED accVars

\* start_host: input_queue.get(), the asserts and the accumulator update
Receive(i) ==
  /\ CanReceive(i)
  /\ LET msg == Head(queues[InputQueue(i)])
     IN /\ queues' = [queues EXCEPT ![InputQueue(i)] = Tail(@)]
        /\ kv' = [kv EXCEPT ![i] = msg]
        /\ IF ShapeOk(msg) /\ BroadcastOk(i)
             THEN /\ SetAcc(i, Observe(HostAcc(i), Q[i], msg.k, msg.v))
                  /\ seen' = [seen EXCEPT ![i] = Append(@, msg.idx)]
                  /\ wpc' = [wpc EXCEPT ![i] = "put"]
             ELSE /\ UNCHANGED <<max_i, num, den, seen>>
                  /\ wpc' = [wpc EXCEPT ![i] = "failed"]
  /\ UNCHANGED <<n, s, Q, K, V, primary, spc, sidx, collected, outputs, cnt>>
  /\ UNCHANGED accVars

\* variant: the host ends a loop pass without passing (k, v) on
ForwardDropped(i) ==
  /\ wpc[i] = "put"
  /\ cnt' = [cnt EXCEPT ![i] = @ + 1]
  /\ wpc' = [wpc EXCEPT ![i] = IF cnt[i] + 1 < n THEN "get" ELSE "finalize"]
  /\ UNCHANGED <<n, s, Q, K, V, queues, primary, spc, sidx, collected, outputs, kv,
                 max_i, num, den, seen>>
  /\ UNCHANGED accVars

\* variant: the loop runs one pass short
ForwardOneShort(i) ==
  /\ wpc[i] = "put"
  /\ queues' = [queues EXCEPT ![OutputQueue(i)] = Append(@, kv[i])]
  /\ cnt' = [cnt EXCEPT ![i] = @ + 1]
  /\ wpc' = [wpc EXCEPT ![i] = IF cnt[i] + 2 < n THEN "get" ELSE "finalize"]
  /\ UNCHANGED <<n, s, Q, K, V, primary, spc, sidx, collected, outputs, kv,
                 max_i, num, den, seen>>
  /\ UNCHANGED accVars

\* variant: the pair is put on the output queue twice
ForwardTwice(i) ==
  /\ wpc[i] = "put"
  /\ queues' = [queues EXCEPT ![OutputQueue(i)] = Append(Append(@, kv[i]), kv[i])]
  /\ cnt' = [cnt EXCEPT ![i] = @ + 1]
  /\ wpc' = [wpc EXCEPT ![i] = IF cnt[i] + 1 < n THEN "get" ELSE "finalize"]
  /\ UNCHANGED <<n, s, Q, K, V, primary, spc, sidx, collected, outputs, kv,
                 max_i, num, den, seen>>
  /\ UNCHANGED accVars

\* start_host: output_queue.put((k, v)) and the end of one loop pass
Forward(i) ==
  /\ wpc[i] = "put"
  /\ queues' = [queues EXCEPT ![OutputQueue(i)] = Append(@, kv[i])]
  /\ cnt' = [cnt EXCEPT ![i] = @ + 1]
  /\ wpc' = [wpc EXCEPT ![i] = IF cnt[i] + 1 < n THEN "get" ELSE "finalize"]
  /\ UNCHANGED <<n, s, Q, K, V, primary, spc, sidx, collected, outputs, kv,
                 max_i, num, den, seen>>
  /\ UNCHANGED accVars

\* variant: the result is emitted without the feed-forward block
EmitUnprocessed(i) ==
  /\ wpc[i] = "finalize"
  /\ primary' = Append(primary, <<i, Finalize(HostAcc(i))>>)
  /\ wpc' = [wpc EXCEPT ![i] = "done"]
  /\ UNCHANGED <<n, s, Q, K, V, queues, spc, sidx, collected, outputs, cnt, kv,
                 max_i, num, den, seen>>
  /\ UNCHANGED accVars

\* start_host: x = num / den; x = postprocess(x); primary.put((index, x))
Emit(i) ==
  /\ wpc[i] = "finalize"
  /\ primary' = Append(primary, <<i, postprocess(Finalize(HostAcc(i)))>>)
  /\ wpc' = [wpc EXCEPT ![i] = "done"]
  /\ UNCHANGED <<n, s, Q, K, V, queues, spc, sidx, collected, outputs, cnt, kv,
                 max_i, num, den, seen>>
  /\ UNCHANGED accVars

\* a host process dies with an exception (as the recorded run's processes did
\* while unpickling start_host); its exit is all the scheduler can observe
Crash(i) ==
  /\ wpc[i] \in {"get", "put", "finalize"}
  /\ wpc' = [wpc EXCEPT ![i] = "failed"]
  /\ UNCHANGED <<n, s, Q, K, V, queues, primary, spc, sidx, collected, outputs,
                 cnt, kv, max_i, num, den, seen>>
  /\ UNCHANGED accVars

Scheduler == StartProcess \/ SendInitial \/ Join \/ Collect
Host(i) == Receive(i) \/ Forward(i) \/ Emit(i)

Next == Scheduler \/ \E i \in Hosts : Host(i)

Spec == Init /\ [][Next]_vars

NextFail == Next \/ \E i \in Hosts : Crash(i)

InitFail == Init /\ n <= MaxFailHosts

SpecFail == InitFail /\ [][NextFail]_vars

\* ----------------------------------------------------- the blockwise loop
\* The inner loop "for j, (k, v) in enumerate(zip(K, V))" of the blockwise
\* cells for one query chunk q = Q[0], followed by num / den.  K and V hold n
\* chunks of s keys each; the chunks are ingested in any order, so that the
\* ring's rotated orders are covered as well as the loop's index order.

\* a value array with a single 1 at flat position p (p = 0: all ones)
Indicator(p, cn, cs) ==
  [j \in 0..(cn - 1) |-> [c \in 1..cs |-> IF p = 0 \/ p = j * cs + c THEN 1 ELSE 0]]

RingOff ==
  /\ queues = <<>>
  /\ primary = <<>>
  /\ spc = "off"
  /\ sidx = 0
  /\ collected = <<>>
  /\ outputs = <<>>
  /\ wpc = <<>> /\ cnt = <<>> /\ kv = <<>>
  /\ max_i = <<>> /\ num = <<>> /\ den = <<>>
  /\ seen = <<>>

InitAcc ==
  /\ n \in 0..MaxKeys
  /\ s \in 1..MaxKeys
  /\ n * s <= MaxKeys
  /\ n = 0 => s = 1
  /\ \E q0 \in 0..MaxScalar : Q = [i \in {0} |-> [r \in 1..s |-> (q0 + r - 1) % Levels]]
  /\ K \in [0..(n - 1) -> [1..s -> 0..MaxScalar]]
  /\ \E p \in 0..(n * s) : V = Indicator(p, n, s)
  /\ afed = {}
  /\ afirst = -1
  /\ amax = ZeroAcc(s).max_i
  /\ anum = ZeroAcc(s).num
  /\ aden = ZeroAcc(s).den
  /\ apc = "loop"
  /\ aout = <<>>
  /\ RingOff

LoopAcc == [max_i |-> amax, num |-> anum, den |-> aden]

SetLoopAcc(acc) ==
  /\ amax' = acc.max_i
  /\ anum' = acc.num
  /\ aden' = acc.den

\* one pass of the loop body on chunk j
ObserveChunk(j) ==
  /\ apc = "loop"
  /\ j \notin afed
  /\ SetLoopAcc(Observe(LoopAcc, Q[0], K[j], V[j]))
  /\ afed' = afed \cup {j}
  /\ afirst' = IF afed = {} THEN j ELSE afirst
  /\ UNCHANGED <<apc, aout>>
  /\ UNCHANGED ringVars

\* after the loop: num / den[..., None]
FinalizeLoop ==
  /\ apc = "loop"
  /\ afed = 0..(n - 1)
  /\ aout' = Finalize(LoopAcc)
  /\ apc' = "done"
  /\ UNCHANGED <<afed, afirst, amax, anum, aden>>
  /\ UNCHANGED ringVars

NextAcc == FinalizeLoop \/ \E j \in 0..(n - 1) : ObserveChunk(j)

SpecAcc == InitAcc /\ [][NextAcc]_vars

\* ------------------------------- the blockwise loop over masked keys
\* The same loop on key chunks that may hold -inf entries (masked keys): with
\* positive queries the score of such a key is -inf.  K[j][c] is a float here.

\* alpha = einsum('bqd,bkd -> bqk', q, k) for float keys
AlphaMasked(q, k) == [r \in 1..Len(q) |-> [c \in 1..Len(k) |-> Scale(k[c], q[r])]]

InitMasked ==
  /\ n \in 1..MaxMaskedKeys
  /\ s \in 1..MaxMaskedKeys
  /\ n * s <= MaxMaskedKeys
  /\ \E q0 \in 1..MaxScalar : Q = [i \in {0} |-> [r \in 1..s |-> 1 + ((q0 + r) % MaxScalar)]]
  /\ K \in [0..(n - 1) -> [1..s -> {Fin(x) : x \in 0..MaxScalar} \cup {NegInf}]]
  /\ \E p \in 0..(n * s) : V = Indicator(p, n, s)
  /\ afed = {}
  /\ afirst = -1
  /\ amax = ZeroAcc(s).max_i
  /\ anum = ZeroAcc(s).num
  /\ aden = ZeroAcc(s).den
  /\ apc = "loop"
  /\ aout = <<>>
  /\ RingOff

\* one pass of the loop body on chunk j
ObserveMasked(j) ==
  /\ apc = "loop"
  /\ j \notin afed
  /\ SetLoopAcc(Accumulate(LoopAcc, AlphaMasked(Q[0], K[j]), V[j]))
  /\ afed' = afed \cup {j}
  /\ afirst' = IF afed = {} THEN j ELSE afirst
  /\ UNCHANGED <<apc, aout>>
  /\ UNCHANGED ringVars

NextMasked == FinalizeLoop \/ \E j \in 0..(n - 1) : ObserveMasked(j)

SpecMasked == InitMasked /\ [][NextMasked]_vars

\* ---------------------------------------------- the ring on ragged chunks
\* ring_transformer on Q, K, V whose chunks differ in sequence length: chunk
\* j holds lens[j] rows, s or s + 1, shared by its queries, keys and values

\* a list of chunks, chunk i of lens[i] rows, drawn from draw number off on
RaggedArray(seed, off, lens, stride) ==
  [i \in DOMAIN lens |-> [r \in 1..lens[i] |-> Random(seed, off + i * stride + r - 1)]]

InitRagged ==
  /\ n \in 1..MaxFailHosts
  /\ s = SeqLen
  /\ \E seed \in 0..MaxSeed : \E lens \in [0..(n - 1) -> {s, s + 1}] :
       /\ Q = RaggedArray(seed, 0, lens, s + 1)
       /\ K = RaggedArray(seed, n * (s + 1), lens, s + 1)
       /\ V = RaggedArray(seed, 2 * n * (s + 1), lens, s + 1)
  /\ RingIdle
  /\ AccOff

SpecRagged == InitRagged /\ [][Next]_vars

\* ------------------------------------------------------- the ring of one
\* ring_transformer on a single chunk (len(Q) = 1), for every query and key
\* chunk and every one-hot or all-ones value chunk
InitOne ==
  /\ n = 1
  /\ s = SeqLen
  /\ Q \in [{0} -> [1..s -> 0..MaxScalar]]
  /\ K \in [{0} -> [1..s -> 0..MaxScalar]]
  /\ \E p \in 0..s : V = Indicator(p, 1, s)
  /\ RingIdle
  /\ AccOff

SpecOne == InitOne /\ [][Next]_vars

\* ------------------------------------------------- reference computations
\* the single-process chunked loop: the accumulators of query chunk q after
\* the chunks 0..upto-1 have been ingested in index order
RECURSIVE ChunkedLoop(_, _)
ChunkedLoop(q, upto) ==
  IF upto = 0 THEN ZeroAcc(s)
  ELSE Observe(ChunkedLoop(q, upto - 1), q, K[upto - 1], V[upto - 1])

\* outputs[i] of the single-process chunked loop with postprocess
ChunkedOutput(i) == postprocess(Finalize(ChunkedLoop(Q[i], n)))

\* K1 = K.transpose([1, 0, 2, 3]).reshape(b, -1, d): the chunks of arr with
\* numbers in js, concatenated in index order from chunk j on
RECURSIVE Flatten(_, _, _)
Flatten(arr, js, j) ==
  IF j >= n THEN <<>>
  ELSE (IF j \in js THEN arr[j] ELSE <<>>) \o Flatten(arr, js, j + 1)

\* sum over the keys of e^{alpha} * v, unstabilised (scores are naturals)
RECURSIVE ExpSum(_, _, _)
ExpSum(qr, ks, vs) ==
  IF ks = <<>> THEN 0
  ELSE (2 ^ (qr * Head(ks))) * Head(vs) + ExpSum(qr, Tail(ks), Tail(vs))

Ones(ks) == [c \in DOMAIN ks |-> 1]

\* einsum('bqk,bkd -> bqd', softmax(einsum('bqd,bkd -> bqk', q, ks), -1), vs)
Attention(q, ks, vs) ==
  [r \in DOMAIN q |->
     TrueDivide(Fin(ExpSum(q[r], ks, vs)), Fin(ExpSum(q[r], ks, Ones(ks))))]

\* number of occurrences of j in the sequence xs
Count(xs, j) == Cardinality({p \in DOMAIN xs : xs[p] = j})

\* ------------------------------------------------------------------ claims

\* C1: once host i has completed its n receives, the chunk indices it fed
\* into its accumulator are exactly 0..n-1, each exactly once.
CE_C1_EachChunkOnce ==
  \A i \in Hosts :
    Len(seen[i]) = n => \A j \in Hosts : Count(seen[i], j) = 1

\* C2: ring equivalence: the result ring_transformer returns at position i
\* is the result of the single-process chunked loop for query chunk i.
CE_C2_RingEquivalence ==
  spc = "returned" => \A i \in Hosts : outputs[i + 1] = ChunkedOutput(i)

\* the steps host i still has to take
HostStepsLeft(i) ==
  CASE wpc[i] = "created"  -> 2 * n + 2
    [] wpc[i] = "get"      -> 2 * (n - cnt[i]) + 1
    [] wpc[i] = "put"      -> 2 * (n - cnt[i])
    [] wpc[i] = "finalize" -> 1
    [] OTHER               -> 0

\* the steps the scheduler still has to take
SchedulerStepsLeft ==
  CASE spc = "start"   -> 4 * n - sidx
    [] spc = "put"     -> 3 * n - sidx
    [] spc = "join"    -> 2 * n - sidx
    [] spc = "collect" -> n - Len(collected)
    [] OTHER           -> 0

RECURSIVE SumHosts(_)
SumHosts(i) == IF i >= n THEN 0 ELSE HostStepsLeft(i) + SumHosts(i + 1)

StepsLeft == SchedulerStepsLeft + SumHosts(0)

RunComplete ==
  /\ spc = "returned"
  /\ \A i \in Hosts : wpc[i] = "done" /\ cnt[i] = n

\* some step of the scheduler or of a host is possible (ENABLED Next, with
\* the guard of Receive written out)
CanStep ==
  \/ ENABLED Scheduler
  \/ \E i \in Hosts : CanReceive(i) \/ ENABLED Forward(i) \/ ENABLED Emit(i)

\* no step is possible, not even a crash
Halted == ~CanStep /\ \A i \in Hosts : ~ENABLED Crash(i)

\* C3: termination: with fair scheduling and no host failure every host
\* completes its n rounds and emits its result, and ring_transformer returns.
\* As a safety property: every state in which no step is possible is the
\* state in which ring_transformer has returned and every host is done, and
\* every step strictly decreases the number of steps still to be taken, so
\* that no behaviour takes steps forever.
C3_Termination ==
  /\ [](CanStep \/ RunComplete)
  /\ [][StepsLeft' < StepsLeft]_vars

W_C3_Returned ==
  /\ spc = "returned"
  /\ n >= 2
  /\ \A i \in Hosts : wpc[i] = "done" /\ cnt[i] = n

\* C4: determinism of collection: whatever the order in which the results
\* arrive on the primary queue, position i of the returned sequence holds the
\* result host i emitted.
C4_CollectionByIndex ==
  spc = "returned" =>
    /\ Len(outputs) = n
    /\ \A i \in Hosts : outputs[i + 1] = postprocess(Finalize(HostAcc(i)))

\* a returned run whose results arrived out of index order
W_C4_OutOfOrderArrival ==
  /\ spc = "returned"
  /\ n >= 2
  /\ collected[1][1] # 0
  /\ \E i \in Hosts : outputs[i + 1] # outputs[1]

\* C5: accumulator prefix invariant: after every observe step, for each query
\* row, num is the sum over the keys seen so far of exp(score - max_i) * value,
\* den the sum of exp(score - max_i), and num / den the softmax-weighted value
\* sum over exactly the keys seen so far.
C5_PrefixInvariant ==
  afed # {} =>
    LET ks == Flatten(K, afed, 0)
        vs == Flatten(V, afed, 0)
        w == Weights(Alpha(Q[0], ks), amax)
    IN /\ \A r \in DOMAIN amax :
            /\ anum[r] = WeightedSum(w[r], vs)
            /\ aden[r] = SumSeq(w[r])
       /\ Finalize(LoopAcc) = Attention(Q[0], ks, vs)

\* a state after the second or a later observe step, in which the running
\* maximum of row 1 exceeds a score seen, so that a weight below 1 is summed
W_C5_AfterRescale ==
  /\ Cardinality(afed) >= 2
  /\ afed # 0..(n - 1)
  /\ anum[1][2] % (2 ^ FracBits) # 0

\* C6: order invariance: ingesting the same chunks in any order gives the
\* final num / den that ingesting them in index order gives.
C6_OrderInvariance ==
  apc = "done" => aout = Finalize(ChunkedLoop(Q[0], n))

\* a finished loop that did not ingest chunk 0 first and whose chunks differ
W_C6_PermutedOrder ==
  /\ apc = "done"
  /\ n >= 3
  /\ afirst # 0
  /\ K[0] # K[afirst]
  /\ aout[1][1] = "fin" /\ aout[1][3] > 1

\* C7: chunk-size invariance: however the key/value sequence is cut into
\* chunks (n chunks of s keys), the final output is plain softmax attention
\* over the whole sequence.
C7_ChunkSizeInvariance ==
  (apc = "done" /\ n >= 1) =>
    aout = Attention(Q[0], Flatten(K, 0..(n - 1), 0), Flatten(V, 0..(n - 1), 0))

\* a finished loop over chunks of an intermediate size
W_C7_IntermediateChunks ==
  /\ apc = "done"
  /\ n >= 2 /\ s >= 2
  /\ aout[1][1] = "fin" /\ aout[1][3] > 1

\* C8: if a host fails before emitting its result, the run ends in a failure
\* reported to the caller: the scheduler and the surviving hosts never stay
\* blocked forever.
CE_C8_FailureReported ==
  ((\E i \in Hosts : wpc[i] = "failed") /\ Halted) => spc = "raised"

\* C9: no partial results: when ring_transformer returns, its output holds
\* exactly one result per host index 0..n-1; when a host has failed it does
\* not return.
C9_NoPartialResults ==
  spc = "returned" =>
    /\ \A i \in Hosts : wpc[i] = "done"
    /\ Len(outputs) = n
    /\ \A i \in Hosts : Count([j \in DOMAIN collected |-> collected[j][1]], i) = 1

\* a run in which one host emitted its result and another failed: the
\* scheduler holds a partial collection and has not returned
W_C9_PartialCollection ==
  /\ spc = "collect"
  /\ Len(collected) >= 1
  /\ primary = <<>>
  /\ \E i \in Hosts : wpc[i] = "failed"

\* C10: finalizing accumulators that have observed no chunk fails with an
\* error; it never yields a value.
CE_C10_EmptyAccumulatorFails ==
  (afed = {} /\ apc # "loop") => apc = "error"

\* C11: every initial message is on its queue before any host starts running:
\* while the scheduler still has processes to start or messages to enqueue, no
\* host has started.
CE_C11_PreloadedBeforeStart ==
  (\E i \in Hosts : wpc[i] # "created") => spc \notin {"start", "put"}

\* C12: the first chunk host i feeds into its accumulator is its own chunk i.
CE_C12_OwnChunkFirst ==
  \A i \in Hosts : seen[i] # <<>> => seen[i][1] = i

\* C18: the ring fixes the ingestion order: in every interleaving the k-th
\* chunk host i receives is chunk (i - k) mod n.
CE_C18_FixedIngestionOrder ==
  \A i \in Hosts : \A k \in DOMAIN seen[i] : seen[i][k] = (i - k + n) % n

\* C19: in every round a host forwards exactly the pair it received in that
\* round, unmodified, and only after feeding it into its accumulator: a host
\* about to forward holds the chunk it ingested last, every message on a ring
\* queue is an original chunk, and a forward step appends the held pair.
C19_ForwardsReceivedPair ==
  /\ [](\A i \in Hosts :
         /\ wpc[i] = "put" =>
              /\ Len(seen[i]) = cnt[i] + 1
              /\ kv[i].idx = seen[i][cnt[i] + 1]
              /\ kv[i] = Message(kv[i].idx)
         /\ \A p \in DOMAIN queues[i] : queues[i][p] = Message(queues[i][p].idx))
  /\ [][\A i \in Hosts :
          cnt'[i] # cnt[i] =>
            /\ wpc[i] = "put"
            /\ queues'[OutputQueue(i)] = Append(queues[OutputQueue(i)], kv[i])
            /\ kv[i].idx = seen[i][Len(seen[i])]]_vars

\* a host has just forwarded a chunk that is not the one it was created with
W_C19_ForwardedBorrowedChunk ==
  \E i \in Hosts :
    /\ wpc[i] = "get"
    /\ cnt[i] >= 1
    /\ queues[i] # <<>>
    /\ queues[i][Len(queues[i])].idx # i
    /\ queues[i][Len(queues[i])].idx = seen[i][cnt[i]]

\* the number of results with index i that host i has put on the primary queue
Emitted(i) ==
  Count([j \in DOMAIN primary |-> primary[j][1]], i)
    + Count([j \in DOMAIN collected |-> collected[j][1]], i)

\* C20: each host performs exactly n receives, n observe steps and n
\* forwards, finalizes only after its n-th observe and emits exactly one
\* result; the primary queue receives exactly n results with the distinct
\* indices 0..n-1.
C20_ExactlyNRounds ==
  /\ \A i \in Hosts :
       /\ Len(seen[i]) <= n /\ cnt[i] <= n
       /\ wpc[i] \in {"finalize", "done"} => (Len(seen[i]) = n /\ cnt[i] = n)
       /\ Emitted(i) = IF wpc[i] = "done" THEN 1 ELSE 0
  /\ Len(primary) + Len(collected) <= n
  /\ spc = "returned" => Len(collected) = n

\* every host has emitted and nothing has been collected yet
W_C20_AllEmitted ==
  /\ n >= 2
  /\ Len(primary) = n
  /\ \A i \in Hosts : wpc[i] = "done" /\ Len(seen[i]) = n

\* C15: the ring of one host: its input and output queue are the same queue,
\* it receives its own chunk exactly once, the run terminates, and the result
\* returned is plain attention of its query chunk over that chunk, followed
\* by postprocess.
C15_RingOfOne ==
  n = 1 =>
    /\ InputQueue(0) = OutputQueue(0)
    /\ \A k \in DOMAIN seen[0] : k = 1 /\ seen[0][k] = 0
    /\ CanStep \/ RunComplete
    /\ spc = "returned" =>
         /\ seen[0] = <<0>>
         /\ outputs = <<postprocess(Attention(Q[0], K[0], V[0]))>>

\* the ring of one host has returned a result that is a proper fraction
W_C15_ReturnedOne ==
  /\ n = 1
  /\ spc = "returned"
  /\ seen[0] = <<0>>
  /\ \E r \in 1..s : outputs[1][2][r][1] = "fin" /\ outputs[1][2][r][3] > 1

\* an argument of np.exp that is at most 0
NonPositive(x) == x[1] = "-inf" \/ (x[1] = "fin" /\ x[2] <= 0)

\* a weight in [0, 1]
UnitWeight(w) == w[1] = "fin" /\ 0 <= w[2] /\ w[2] <= 2 ^ FracBits

\* C14: overflow freedom: in every observe step every exponential is
\* evaluated at an argument that is at most 0 (score - new max for every score
\* of the block, previous max - new max), so every exponential lies in [0, 1].
C14_ExponentsNonPositive ==
  [][\A j \in afed' \ afed :
       \A r \in DOMAIN amax :
         /\ NonPositive(Minus(amax[r], amax'[r]))
         /\ UnitWeight(Correction(amax, amax')[r])
         /\ \A c \in DOMAIN K[j] :
              /\ NonPositive(Minus(Alpha(Q[0], K[j])[r][c], amax'[r]))
              /\ UnitWeight(Weights(Alpha(Q[0], K[j]), amax')[r][c])]_vars

\* after two or more observe steps the running maximum of row 1 exceeds a
\* score that was ingested
W_C14_ScoreBelowMax ==
  /\ Cardinality(afed) >= 2
  /\ \E j \in afed : \E c \in DOMAIN K[j] :
       Alpha(Q[0], K[j])[1][c][2] < amax[1][2]

\* C13: observe never produces NaN: after any observe step, also one on a row
\* whose scores are all equal or all -inf, num and den are finite, and so is
\* the finalized result.
CE_C13_NeverNaN ==
  afed # {} =>
    /\ \A r \in DOMAIN anum : anum[r][1] = "fin" /\ aden[r][1] = "fin"
    /\ apc = "done" => \A r \in DOMAIN aout : aout[r][1] = "fin"

\* C16: a received chunk whose dimensions disagree with the host's query
\* chunk is detected before the accumulator is touched and before the chunk
\* is forwarded, and the error is surfaced to the caller: once nothing can
\* move any more, ring_transformer has raised.
CE_C16_ShapeMismatchSurfaced ==
  \A i \in Hosts :
    (wpc[i] = "failed" /\ Len(kv[i].k) # Len(Q[i])) =>
      /\ Len(seen[i]) = cnt[i]
      /\ ~CanStep => spc = "raised"

\* C17: the ring accepts chunks of different sequence lengths: on such inputs
\* no host stops on a shape error.
CE_C17_RaggedChunksAccepted ==
  (\E j, k \in Hosts : Len(K[j]) # Len(K[k])) =>
    \A i \in Hosts : wpc[i] # "failed"

\* C21: max_i starts at -inf; after every observe step it is, per query row,
\* the maximum raw score over all chunks observed so far, and it never
\* decreases from one observe step to the next.
C21_RunningMax ==
  /\ [](apc = "loop" /\ afed = {} => \A r \in DOMAIN amax : amax[r] = NegInf)
  /\ [](afed # {} =>
         \A r \in DOMAIN amax :
           amax[r] = MaxSeq(Alpha(Q[0], Flatten(K, afed, 0))[r]))
  /\ [][\A r \in DOMAIN amax : Maximum(amax[r], amax'[r]) = amax'[r]]_vars

\* after two or more observe steps the running maximum of row 1 is above the
\* maximum of one of the chunks observed, and equal to that of another
W_C21_MaxFromOneChunk ==
  /\ Cardinality(afed) >= 2
  /\ \E j \in afed : MaxSeq(Alpha(Q[0], K[j])[1])[2] < amax[1][2]
  /\ \E j \in afed : MaxSeq(Alpha(Q[0], K[j])[1]) = amax[1]

\* the number of keys observed so far
KeysObserved == Cardinality(afed) * s

\* C25: after at least one observe step with finite scores the denominator of
\* every query row is at least 1 and at most the number of keys observed so
\* far, so that num / den is not a division by zero.
C25_DenominatorBounds ==
  afed # {} =>
    /\ \A r \in DOMAIN aden :
         /\ aden[r][1] = "fin"
         /\ 2 ^ FracBits <= aden[r][2]
         /\ aden[r][2] <= KeysObserved * 2 ^ FracBits
    /\ apc = "done" => \A r \in DOMAIN aout : aout[r][1] = "fin"

\* a denominator strictly between 1 and the number of keys observed
W_C25_DenominatorInside ==
  /\ Cardinality(afed) >= 2
  /\ 2 ^ FracBits < aden[1][2]
  /\ aden[1][2] < KeysObserved * 2 ^ FracBits

\* C22: accumulator ownership: max_i, num and den of host i are set up when
\* host i starts and change afterwards only in host i's own observe step, once
\* per chunk it receives; no step of another host or of the scheduler changes
\* them, and they do not change once host i has finished its loop.
C22_AccumulatorOwnership ==
  [][\A i \in Hosts :
       /\ HostAcc(i)' # HostAcc(i) =>
            \/ /\ wpc[i] = "created" /\ wpc'[i] = "get"
               /\ HostAcc(i)' = ZeroAcc(s)
            \/ /\ wpc[i] = "get" /\ wpc'[i] = "put"
               /\ Len(seen'[i]) = Len(seen[i]) + 1
               /\ \A j \in Hosts \ {i} : wpc'[j] = wpc[j] /\ HostAcc(j)' = HostAcc(j)
       /\ Len(seen'[i]) # Len(seen[i]) => HostAcc(i)' # HostAcc(i)
       /\ wpc[i] \in {"finalize", "done"} => HostAcc(i)' = HostAcc(i)]_vars

\* one host has finished its loop while another, which has observed a chunk
\* already, is waiting for its next one
W_C22_OneDoneOneRunning ==
  \E i, j \in Hosts :
    /\ i # j
    /\ wpc[i] = "done"
    /\ wpc[j] = "get" /\ Len(seen[j]) >= 1
    /\ HostAcc(i) # HostAcc(j)

\* chunk j has been put on its ring queue by the scheduler
Injected(j) == spc \notin {"start", "put"} \/ (spc = "put" /\ j < sidx)

RECURSIVE QueuedCopies(_, _)
QueuedCopies(j, i) ==
  IF i >= n THEN 0
  ELSE Count([p \in DOMAIN queues[i] |-> queues[i][p].idx], j) + QueuedCopies(j, i + 1)

\* the hosts holding chunk j between their receive and their forward
Holders(j) == {i \in Hosts : wpc[i] = "put" /\ kv[i].idx = j}

\* C24: chunk conservation: every chunk the scheduler has injected is in
\* exactly one place, on one ring queue or held by one host between its
\* receive and its forward; a chunk not yet injected is nowhere.
C24_ChunkConservation ==
  \A j \in Hosts :
    QueuedCopies(j, 0) + Cardinality(Holders(j)) = IF Injected(j) THEN 1 ELSE 0

\* one chunk is held by a host while another waits on a ring queue
W_C24_HeldAndQueued ==
  \E j, k \in Hosts :
    /\ j # k
    /\ Holders(j) # {}
    /\ QueuedCopies(k, 0) = 1
    /\ \E i \in Hosts : cnt[i] >= 1

\* C23: leftover messages: when every host is done the ring queues hold
\* exactly n messages, one on each queue, and the message left on queue i is
\* chunk i.
CE_C23_LeftoverMessages ==
  (\A i \in Hosts : wpc[i] = "done") =>
    \A i \in Hosts : Len(queues[i]) = 1 /\ queues[i][1].idx = i

=============================================================================
